---- MODULE Spec2Model ----
(***************************************************************************)
(* Model of as.py, the assembler for a stack machine with 4-bit opcodes    *)
(* and 4-bit immediates.  One run of main() is modelled: parse (pass 1),   *)
(* translate_pseudo (pass 2), target resolution / binary generation, and   *)
(* the writing of the binary file.  Every loop iteration is one step.      *)
(*                                                                         *)
(* A source line is modelled after preprocess() at token level:            *)
(*   [label, mnem, okind, lit, id]                                         *)
(* okind says which operand text follows the mnemonic ("none", "imm",      *)
(* "id"); lit is the immediate literal as text (sign, base, digits).       *)
(* Python lists are 0-based, TLA+ sequences 1-based: the element the code  *)
(* calls x[i] is x[i + 1] here.                                            *)
(***************************************************************************)
EXTENDS Integers, Sequences, FiniteSets, TLC

VARIABLES
    src,          \* the lines of the source file
    pc,           \* position in main(): parse, translate, resolve, write, done, exit
    lnum,         \* parse: number of the line read next (enumerate start=1)
    label_lut,    \* label -> address
    pseudo_asm,   \* result of parse
    addr,         \* loop variable of translate_pseudo (from 1) and of main's loop (from 0)
    instr_offset, \* translate_pseudo: growth caused by the expansions so far
    label_asm,    \* result of translate_pseudo
    bin_code,     \* [opcode, immediate] pairs, both bit strings
    bin_file,     \* lines written to the output file
    stderr        \* diagnostics given to sys.exit

vars == <<src, pc, lnum, label_lut, pseudo_asm, addr, instr_offset,
          label_asm, bin_code, bin_file, stderr>>

-----------------------------------------------------------------------------
(* Bounds of the model *)

\* longest program drawn from Alphabet
MaxLines == 3
\* longest program of the family  jmp a, ..., jmp a, a: hlt
MaxJumps == 32
\* push literals are drawn from (-128 - ImmSlack) .. (255 + ImmSlack)
ImmSlack == 2

-----------------------------------------------------------------------------
(* Values *)

\* Python's None (a group of the regex that did not take part in the match)
None == "None"

\* the empty immediate text
NoLit == [neg |-> FALSE, hex |-> FALSE, digits |-> <<>>]

\* RE_MNEMONIC
MNEMONICS == {"hlt", "in", "out", "puship", "push", "drop", "dup", "add", "sub",
              "not", "nand", "and", "slt", "shl", "shr", "jeq", "jmp"}

OPCODES_LUT == [m \in {"hlt", "in", "out", "puship", "push", "drop", "dup", "add",
                       "sub", "nand", "slt", "shl", "shr", "jeq", "jmp"} |->
    CASE m = "hlt"    -> <<0,0,0,0>>
      [] m = "in"     -> <<0,0,0,1>>
      [] m = "out"    -> <<0,0,1,0>>
      [] m = "puship" -> <<0,0,1,1>>
      [] m = "push"   -> <<0,1,0,0>>
      [] m = "drop"   -> <<0,1,0,1>>
      [] m = "dup"    -> <<0,1,1,0>>
      [] m = "add"    -> <<1,0,0,0>>
      [] m = "sub"    -> <<1,0,0,1>>
      [] m = "nand"   -> <<1,0,1,0>>
      [] m = "slt"    -> <<1,0,1,1>>
      [] m = "shl"    -> <<1,1,0,0>>
      [] m = "shr"    -> <<1,1,0,1>>
      [] m = "jeq"    -> <<1,1,1,0>>
      [] m = "jmp"    -> <<1,1,1,1>>]

\* a record of pseudo_asm / label_asm: [label, mnemonic, immediate, target]
Tok(label, mnemonic, imm, target) ==
    [label |-> label, mnemonic |-> mnemonic, imm |-> imm, target |-> target]

-----------------------------------------------------------------------------
(* Pure functions *)

RECURSIVE DigitsValue(_, _)
\* int(text, base) on the digits of a literal
DigitsValue(digits, base) ==
    IF digits = <<>> THEN 0
    ELSE DigitsValue(SubSeq(digits, 1, Len(digits) - 1), base) * base
         + digits[Len(digits)]

imm2int(imm_s) ==
    IF imm_s.digits = <<>> THEN 0
    ELSE LET v == DigitsValue(imm_s.digits, IF imm_s.hex THEN 16 ELSE 10)
         IN  IF imm_s.neg THEN 0 - v ELSE v

\* x >> n of a Python int (arithmetic shift: floor division)
Shr4(x) == x \div 16

\* x & 15 of a Python int (two's complement: the residue mod 16)
And15(x) == x % 16

\* f'{imm_i & 0xf:04b}': four binary digits, most significant first
int2nibble(imm_i) ==
    LET n == And15(imm_i)
    IN  <<(n \div 8) % 2, (n \div 4) % 2, (n \div 2) % 2, n % 2>>

\* RE_INSTR with the target alternative open to every branch mnemonic
OperandMatchesAnyBranch(mnem, okind) ==
    \/ mnem = "push" /\ okind = "imm"
    \/ mnem \in {"jmp", "jeq"} /\ okind \in {"none", "id"}
    \/ mnem \notin {"jmp", "jeq", "push"} /\ okind = "none"

\* the operand alternatives of RE_INSTR
OperandMatches(mnem, okind) ==
    \/ mnem = "push" /\ okind = "imm"
    \/ mnem = "jmp" /\ okind \in {"none", "id"}
    \/ mnem # "jmp" /\ mnem # "push" /\ okind = "none"

\* the line preprocess() returns is empty
IsEmptyLine(line) ==
    line.label = None /\ line.mnem = "" /\ line.okind = "none"

\* fullmatch(RE_LINE, line): an optional label, a mnemonic and its operand
FullMatch(line) ==
    line.mnem \in MNEMONICS /\ OperandMatches(line.mnem, line.okind)

\* the groups of the match (label, mnemonic, immediate, target) as <<groups>>,
\* or <<>> for the None of a line that does not match
tokenize(line) ==
    IF FullMatch(line)
    THEN << Tok(line.label, line.mnem,
                IF line.okind = "imm" THEN line.lit ELSE NoLit,
                IF line.okind = "id" THEN line.id ELSE None) >>
    ELSE <<>>

\* Python's seq[i]: a negative index counts from the end
PyIndex(seq, i) == IF i >= 0 THEN i + 1 ELSE Len(seq) + i + 1

\* dict assignment lut[key] = value
DictSet(lut, key, value) ==
    [k \in DOMAIN lut \cup {key} |-> IF k = key THEN value ELSE lut[k]]

-----------------------------------------------------------------------------
(* PSEUDO_TRANSLATIONS_LUT *)

PSEUDO_not(t) ==
    << Tok(t.label, "dup",  0, None),
       Tok(None,    "nand", 0, None) >>

PSEUDO_and(t) ==
    << Tok(t.label, "nand", 0, None),
       Tok(None,    "dup",  0, None),
       Tok(None,    "nand", 0, None) >>

\* the push block with the high nibble rounded toward zero
PSEUDO_push_truncating(t) ==
    << Tok(t.label, "push", 4, None),
       Tok(None,    "push", IF t.imm < 0 THEN 0 - ((0 - t.imm) \div 16) ELSE t.imm \div 16, None),
       Tok(None,    "shl",  0, None),
       Tok(None,    "push", And15(t.imm), None),
       Tok(None,    "add",  0, None) >>

PSEUDO_push(t) ==
    << Tok(t.label, "push", 4,           None),
       Tok(None,    "push", Shr4(t.imm), None),
       Tok(None,    "shl",  0,           None),
       Tok(None,    "push", And15(t.imm), None),
       Tok(None,    "add",  0,           None) >>

\* the jump block without its second add
PSEUDO_jmp_one_add(t) ==
    << Tok(t.label, "puship", 0, None),
       Tok(None,    "push",   4, None),
       Tok(None,    "push",   0, None),
       Tok(None,    "shl",    0, None),
       Tok(None,    "push",   0, None),
       Tok(None,    "add",    0, None),
       Tok(None,    "jmp",    0, t.target) >>

PSEUDO_jmp(t) ==
    << Tok(t.label, "puship", 0, None),
       Tok(None,    "push",   4, None),
       Tok(None,    "push",   0, None),
       Tok(None,    "shl",    0, None),
       Tok(None,    "push",   0, None),
       Tok(None,    "add",    0, None),
       Tok(None,    "add",    0, None),
       Tok(None,    "jmp",    0, t.target) >>

PSEUDO_TRANSLATIONS_LUT(mnemonic, t) ==
    CASE mnemonic = "not"  -> PSEUDO_not(t)
      [] mnemonic = "and"  -> PSEUDO_and(t)
      [] mnemonic = "push" -> PSEUDO_push(t)
      [] mnemonic = "jmp"  -> PSEUDO_jmp(t)

\* the condition with the symmetric window of a signed nibble
TranslatesSymmetric(tokens) ==
    \/ tokens.mnemonic = "not"
    \/ tokens.mnemonic = "and"
    \/ tokens.mnemonic = "push" /\ ~(-8 <= tokens.imm /\ tokens.imm <= 7)
    \/ tokens.mnemonic = "jmp" /\ tokens.target # None

\* the condition of translate_pseudo under which an instruction is translated
Translates(tokens) ==
    \/ tokens.mnemonic = "not"
    \/ tokens.mnemonic = "and"
    \/ tokens.mnemonic = "push" /\ ~(-8 <= tokens.imm /\ tokens.imm <= 15)
    \/ tokens.mnemonic = "jmp" /\ tokens.target # None

-----------------------------------------------------------------------------
(* Diagnostics: the message of the exception main() hands to sys.exit *)

Diag(msg, line, name, first) ==
    [msg |-> msg, line |-> line, name |-> name, first |-> first]

InvalidSyntax(n) == Diag("invalid syntax", n, None, 0)

\* the message citing the line of the second definition
LabelInUseHere(n, label, lut) == Diag("label already in use", n, label, n)

LabelInUse(n, label, lut) == Diag("label already in use", n, label, lut[label])

ImmediateTooWide(n) == Diag("immediate does not fit in 8 bits", n, None, 0)

UndefinedLabel(a, target) == Diag("jump targets undefined label", a + 1, target, 0)

\* the diagnostic is printed and the run goes on
ReportAndContinue(e) ==
    /\ stderr' = Append(stderr, e)
    /\ pc' = pc

\* raise inside try ... except Exception as e: sys.exit(e)
Exit(e) ==
    /\ stderr' = Append(stderr, e)
    /\ pc' = "exit"

-----------------------------------------------------------------------------
(* Source files *)

Blank == [label |-> None, mnem |-> "", okind |-> "none", lit |-> NoLit, id |-> None]

Line(label, mnem) ==
    [label |-> label, mnem |-> mnem, okind |-> "none", lit |-> NoLit, id |-> None]

LineImm(label, mnem, lit) ==
    [label |-> label, mnem |-> mnem, okind |-> "imm", lit |-> lit, id |-> None]

LineId(label, mnem, id) ==
    [label |-> label, mnem |-> mnem, okind |-> "id", lit |-> NoLit, id |-> id]

RECURSIVE Digits(_, _)
\* the digits of n >= 0 written in the base
Digits(n, base) ==
    IF n < base THEN <<n>> ELSE Append(Digits(n \div base, base), n % base)

\* the decimal literal that denotes v, and the 0x literal that denotes v >= 0
Dec(v) == [neg |-> v < 0, hex |-> FALSE, digits |-> Digits(IF v < 0 THEN 0 - v ELSE v, 10)]

Hex(v) == [neg |-> FALSE, hex |-> TRUE, digits |-> Digits(v, 16)]

Alphabet ==
    { Blank,
      Line("a", "hlt"),
      Line(None, "not"),
      Line(None, "jeq"),
      LineId(None, "jeq", "a"),
      LineId(None, "jmp", "a"),
      LineId("b", "jmp", "a"),
      LineId(None, "jmp", "b"),
      Line("b", "and"),
      LineImm("a", "push", Dec(200)),
      LineImm(None, "push", Dec(5)),
      LineImm(None, "push", Dec(300)) }

RECURSIVE Repeat(_, _)
Repeat(line, n) == IF n = 0 THEN <<>> ELSE <<line>> \o Repeat(line, n - 1)

SmallPrograms == UNION { [1..n -> Alphabet] : n \in 0..MaxLines }

PushPrograms ==
    { << LineImm(None, "push", Dec(v)), Line("a", "hlt") >> :
         v \in (-128 - ImmSlack) .. (255 + ImmSlack) }
    \cup
    { << Blank, LineImm("a", "push", Hex(v)), LineId(None, "jmp", "a") >> :
         v \in 0 .. (255 + ImmSlack) }

JumpPrograms ==
    { Repeat(LineId(None, "jmp", "a"), k) \o << Line("a", "hlt") >> : k \in 0..MaxJumps }

OtherPrograms ==
    { << Line("b", "and"), Line(None, "jmp"), Blank, LineImm("c", "push", Dec(-3)),
         LineId("a", "jmp", "c"), Line(None, "shl"), LineId(None, "jmp", "b") >>,
      << Line(None, "push") >>,
      << Line("a", "") >>,
      << LineId(None, "hlt", "a") >>,
      << LineImm(None, "jmp", Dec(1)) >> }

Programs == SmallPrograms \cup PushPrograms \cup JumpPrograms \cup OtherPrograms

-----------------------------------------------------------------------------
(* main() *)

Init ==
    /\ src \in Programs
    /\ pc = "parse"
    /\ lnum = 1
    /\ label_lut = <<>>
    /\ pseudo_asm = <<>>
    /\ addr = 0
    /\ instr_offset = 0
    /\ label_asm = <<>>
    /\ bin_code = <<>>
    /\ bin_file = <<>>
    /\ stderr = <<>>

\* one iteration of the loop of parse()
ParseLine ==
    /\ pc = "parse"
    /\ lnum <= Len(src)
    /\ LET line   == src[lnum]
           tokens == tokenize(line)
           label  == tokens[1].label
           imm    == imm2int(tokens[1].imm)
           lut    == IF label # None THEN DictSet(label_lut, label, lnum) ELSE label_lut
       IN  IF IsEmptyLine(line)
           THEN /\ lnum' = lnum + 1
                /\ UNCHANGED <<pc, label_lut, pseudo_asm, stderr>>
           ELSE IF tokens = <<>>
           THEN /\ Exit(InvalidSyntax(lnum))
                /\ UNCHANGED <<lnum, label_lut, pseudo_asm>>
           ELSE IF label # None /\ label \in DOMAIN label_lut
           THEN /\ Exit(LabelInUse(lnum, label, label_lut))
                /\ UNCHANGED <<lnum, label_lut, pseudo_asm>>
           ELSE IF ~(-128 <= imm /\ imm <= 255)
           THEN /\ Exit(ImmediateTooWide(lnum))
                /\ label_lut' = lut
                /\ UNCHANGED <<lnum, pseudo_asm>>
           ELSE /\ label_lut' = lut
                /\ pseudo_asm' = Append(pseudo_asm,
                                        Tok(label, tokens[1].mnemonic, imm, tokens[1].target))
                /\ lnum' = lnum + 1
                /\ UNCHANGED <<pc, stderr>>
    /\ UNCHANGED <<src, addr, instr_offset, label_asm, bin_code, bin_file>>

\* parse() returns; translate_pseudo() starts
ParseReturn ==
    /\ pc = "parse"
    /\ lnum > Len(src)
    /\ pc' = "translate"
    /\ addr' = 1
    /\ instr_offset' = 0
    /\ label_asm' = <<>>
    /\ UNCHANGED <<src, lnum, label_lut, pseudo_asm, bin_code, bin_file, stderr>>

\* one iteration of the loop of translate_pseudo()
TranslateInstr ==
    /\ pc = "translate"
    /\ addr <= Len(pseudo_asm)
    /\ LET tokens == pseudo_asm[addr]
           transl == PSEUDO_TRANSLATIONS_LUT(tokens.mnemonic, tokens)
       IN  IF tokens.target # None /\ tokens.target \notin DOMAIN label_lut
           THEN /\ Exit(UndefinedLabel(addr, tokens.target))
                /\ UNCHANGED <<addr, label_lut, instr_offset, label_asm>>
           ELSE /\ label_lut' = IF tokens.label # None
                                THEN DictSet(label_lut, tokens.label, addr + instr_offset)
                                ELSE label_lut
                /\ IF Translates(tokens)
                   THEN /\ instr_offset' = instr_offset + Len(transl) - 1
                        /\ label_asm' = label_asm \o transl
                   ELSE /\ instr_offset' = instr_offset
                        /\ label_asm' = Append(label_asm, tokens)
                /\ addr' = addr + 1
                /\ UNCHANGED <<pc, stderr>>
    /\ UNCHANGED <<src, lnum, pseudo_asm, bin_code, bin_file>>

\* translate_pseudo() returns; the loop of main() starts
TranslateReturn ==
    /\ pc = "translate"
    /\ addr > Len(pseudo_asm)
    /\ pc' = "resolve"
    /\ addr' = 0
    /\ bin_code' = <<>>
    /\ UNCHANGED <<src, lnum, label_lut, pseudo_asm, instr_offset, label_asm,
                   bin_file, stderr>>

\* the patch with the two nibbles exchanged
PatchSwapped(code, a, target_addr) ==
    LET imm_bits_h == int2nibble(Shr4(target_addr))
        imm_bits_l == int2nibble(target_addr)
        h == PyIndex(code, a - 5)
        l == PyIndex(code, a - 3)
        code_h == [code EXCEPT ![h] = <<code[h][1], imm_bits_l>>]
    IN  [code_h EXCEPT ![l] = <<code_h[l][1], imm_bits_h>>]

\* the patch one place too far back
PatchShifted(code, a, target_addr) ==
    LET imm_bits_h == int2nibble(Shr4(target_addr))
        imm_bits_l == int2nibble(target_addr)
        h == PyIndex(code, a - 6)
        l == PyIndex(code, a - 4)
        code_h == [code EXCEPT ![h] = <<code[h][1], imm_bits_h>>]
    IN  [code_h EXCEPT ![l] = <<code_h[l][1], imm_bits_l>>]

\* the immediates of the two push instructions of a jump, overwritten
Patch(code, a, target_addr) ==
    LET imm_bits_h == int2nibble(Shr4(target_addr))
        imm_bits_l == int2nibble(target_addr)
        h == PyIndex(code, a - 5)
        l == PyIndex(code, a - 3)
        code_h == [code EXCEPT ![h] = <<code[h][1], imm_bits_h>>]
    IN  [code_h EXCEPT ![l] = <<code_h[l][1], imm_bits_l>>]

\* one iteration of the loop of main(): target resolution and binary generation
ResolveInstr ==
    /\ pc = "resolve"
    /\ addr < Len(label_asm)
    /\ LET tokens   == label_asm[addr + 1]
           resolved == IF tokens.target # None
                       THEN Patch(bin_code, addr, label_lut[tokens.target])
                       ELSE bin_code
       IN  bin_code' = Append(resolved,
                              <<OPCODES_LUT[tokens.mnemonic], int2nibble(tokens.imm)>>)
    /\ addr' = addr + 1
    /\ UNCHANGED <<src, pc, lnum, label_lut, pseudo_asm, instr_offset, label_asm,
                   bin_file, stderr>>

\* the loop of main() ends; the output file is opened
OpenOutput ==
    /\ pc = "resolve"
    /\ addr = Len(label_asm)
    /\ pc' = "write"
    /\ bin_file' = <<>>
    /\ UNCHANGED <<src, lnum, label_lut, pseudo_asm, addr, instr_offset, label_asm,
                   bin_code, stderr>>

\* print(f'{op}{imm}', file=bin_file)
OutputLine(op, imm) == op \o imm

\* one iteration of the loop that writes the file
WriteLine ==
    /\ pc = "write"
    /\ Len(bin_file) < Len(bin_code)
    /\ LET entry == bin_code[Len(bin_file) + 1]
       IN  bin_file' = Append(bin_file, OutputLine(entry[1], entry[2]))
    /\ UNCHANGED <<src, pc, lnum, label_lut, pseudo_asm, addr, instr_offset,
                   label_asm, bin_code, stderr>>

\* bin_file.close()
CloseOutput ==
    /\ pc = "write"
    /\ Len(bin_file) = Len(bin_code)
    /\ pc' = "done"
    /\ UNCHANGED <<src, lnum, label_lut, pseudo_asm, addr, instr_offset, label_asm,
                   bin_code, bin_file, stderr>>

Next ==
    \/ ParseLine
    \/ ParseReturn
    \/ TranslateInstr
    \/ TranslateReturn
    \/ ResolveInstr
    \/ OpenOutput
    \/ WriteLine
    \/ CloseOutput

Spec == Init /\ [][Next]_vars

-----------------------------------------------------------------------------
(* Vocabulary of the properties *)

\* the number a 4-bit pattern denotes
NibbleValue(bits) == bits[1] * 8 + bits[2] * 4 + bits[3] * 2 + bits[4]

\* the opcode field and the immediate field of a line of the binary file
OpField(text) == SubSeq(text, 1, 4)
ImmField(text) == NibbleValue(SubSeq(text, 5, 8))

\* the 1-based places of label_asm that hold a jump with a symbolic target
SymbolicJumps == { j \in 1..Len(label_asm) : label_asm[j].target # None }

\* mnemonic and immediate of the instructions from..to of label_asm
Shape(seq, from, to) ==
    [i \in 1..(to - from + 1) |-> <<seq[from + i - 1].mnemonic, seq[from + i - 1].imm>>]

\* translate_pseudo is at the end of an iteration that handled instruction k
Translated(k) == pc = "translate" /\ addr = k + 1 /\ k \in 1..Len(pseudo_asm)

\* this step is an iteration of translate_pseudo that did not raise
TranslateStep == pc = "translate" /\ pc' = "translate" /\ addr' = addr + 1

-----------------------------------------------------------------------------
(* C1 *)

\* C1 (as claimed): in every finished run, for every jmp with a symbolic target
\* the two patched push immediates of its block, read as high nibble * 16 + low
\* nibble, equal the label table's address of the target.
C1_PatchedEqualsAddress ==
    pc = "done" =>
        \A j \in SymbolicJumps :
            /\ j > 5
            /\ ImmField(bin_file[j - 5]) * 16 + ImmField(bin_file[j - 3])
                   = label_lut[label_asm[j].target]

\* C1 (amended): in every finished run, for every jmp with a symbolic target the
\* two patched push immediates of its block, read as high nibble * 16 + low
\* nibble, equal the label table's address of the target modulo 256 (the
\* address itself when it is below 256).
C1_PatchedEqualsAddressMod256 ==
    pc = "done" =>
        \A j \in SymbolicJumps :
            /\ j > 5
            /\ label_asm[j - 5].mnemonic = "push"
            /\ label_asm[j - 3].mnemonic = "push"
            /\ ImmField(bin_file[j - 5]) * 16 + ImmField(bin_file[j - 3])
                   = label_lut[label_asm[j].target] % 256

\* a finished run with a forward jump whose target address needs both nibbles
C1_Witness ==
    /\ pc = "done"
    /\ \E j \in SymbolicJumps :
          /\ label_lut[label_asm[j].target] > j
          /\ label_lut[label_asm[j].target] \div 16 > 0
          /\ label_lut[label_asm[j].target] % 16 > 0
          /\ label_lut[label_asm[j].target] < 256

-----------------------------------------------------------------------------
(* C2 *)

\* C2 (as claimed): once translate_pseudo has returned, every label's address
\* is the position, counted from 0 as main's loop and the binary file count, of
\* the instruction of the expanded sequence that carries the label.
C2_LabelAddressIsPosition ==
    pc \in {"resolve", "write", "done"} =>
        \A L \in DOMAIN label_lut :
            /\ label_lut[L] + 1 \in 1..Len(label_asm)
            /\ label_asm[label_lut[L] + 1].label = L

-----------------------------------------------------------------------------
(* C3 *)

\* the out-of-range push block with immediate 0
PlaceholderPushBlock ==
    << <<"push", 4>>, <<"push", 0>>, <<"shl", 0>>, <<"push", 0>>, <<"add", 0>> >>

\* C3 (as claimed): every branch with a symbolic target is preceded, in the
\* expanded sequence, by two placeholder push blocks of the 5-instruction shape
\* with immediate 0, and itself has immediate 0.
C3_TwoPlaceholderBlocks ==
    \A j \in SymbolicJumps :
        /\ j > 10
        /\ Shape(label_asm, j - 10, j - 6) = PlaceholderPushBlock
        /\ Shape(label_asm, j - 5, j - 1) = PlaceholderPushBlock
        /\ label_asm[j].imm = 0

\* C3 (amended): for every jmp with a symbolic target the expander emits the
\* same 8 instructions: puship 0 (with the jmp's label), then one block of the
\* out-of-range push shape whose two nibble pushes are placeholders with
\* immediate 0 (push 4, push 0, shl, push 0, add), then add 0, then jmp 0 with
\* the target attached; the running offset grows by 7, the emitted length - 1.
C3_JumpBlock ==
    [][ (TranslateStep /\ pseudo_asm[addr].target # None) =>
            LET t == pseudo_asm[addr]
                n == Len(label_asm)
            IN  /\ Len(label_asm') = n + 8
                /\ SubSeq(label_asm', 1, n) = label_asm
                /\ Shape(label_asm', n + 1, n + 1) = << <<"puship", 0>> >>
                /\ Shape(label_asm', n + 2, n + 6) = PlaceholderPushBlock
                /\ Shape(label_asm', n + 7, n + 8) = << <<"add", 0>>, <<t.mnemonic, 0>> >>
                /\ label_asm'[n + 1].label = t.label
                /\ \A i \in (n + 2)..(n + 8) : label_asm'[i].label = None
                /\ \A i \in (n + 1)..(n + 7) : label_asm'[i].target = None
                /\ label_asm'[n + 8].target = t.target
                /\ instr_offset' = instr_offset + (Len(label_asm') - n) - 1
      ]_vars

\* translate_pseudo has just expanded a labelled jmp that follows other
\* expansions
C3_Witness ==
    /\ \E k \in 1..Len(pseudo_asm) :
          /\ Translated(k)
          /\ pseudo_asm[k].target # None
          /\ pseudo_asm[k].label # None
    /\ Len(label_asm) > 8
    /\ instr_offset > 7

-----------------------------------------------------------------------------
(* C4 *)

\* instruction k of pseudo_asm is a push whose immediate is outside -8..15
WidePush(k) ==
    /\ pseudo_asm[k].mnemonic = "push"
    /\ (pseudo_asm[k].imm < -8 \/ pseudo_asm[k].imm > 15)

\* every instruction before k is one that stands for itself in the binary
OnlySingleBefore(k) ==
    \A i \in 1..(k - 1) :
        \/ pseudo_asm[i].mnemonic \in {"hlt", "jeq", "shl"}
        \/ pseudo_asm[i].mnemonic = "jmp" /\ pseudo_asm[i].target = None
        \/ pseudo_asm[i].mnemonic = "push" /\ ~WidePush(i)

\* C4: for every accepted v outside -8..15, push v expands to push 4, push h,
\* shl, push l, add, and the fields emitted for h and l satisfy
\* h-field * 16 + l-field = v mod 256: at the step that expands it, whatever
\* the 4-bit encoding makes of h and l, and in the binary file of a finished
\* run for every such push that only single instructions precede.
C4_PushReconstructs ==
    /\ [][ (TranslateStep /\ WidePush(addr)) =>
              LET v == pseudo_asm[addr].imm
                  n == Len(label_asm)
              IN  /\ Len(label_asm') = n + 5
                  /\ [i \in 1..5 |-> label_asm'[n + i].mnemonic]
                         = <<"push", "push", "shl", "push", "add">>
                  /\ label_asm'[n + 1].imm = 4
                  /\ (label_asm'[n + 2].imm % 16) * 16 + (label_asm'[n + 4].imm % 16)
                         = v % 256
         ]_vars
    /\ [] ( pc = "done" =>
              \A k \in 1..Len(pseudo_asm) :
                  (WidePush(k) /\ OnlySingleBefore(k)) =>
                      /\ Len(bin_file) >= k + 4
                      /\ [i \in 1..5 |-> OpField(bin_file[k + i - 1])]
                             = << <<0,1,0,0>>, <<0,1,0,0>>, <<1,1,0,0>>,
                                  <<0,1,0,0>>, <<1,0,0,0>> >>
                      /\ ImmField(bin_file[k]) = 4
                      /\ ImmField(bin_file[k + 1]) * 16 + ImmField(bin_file[k + 3])
                             = pseudo_asm[k].imm % 256 )

\* a finished run whose first instruction is a push of a negative value below
\* the native window, written out as five lines
C4_Witness ==
    /\ pc = "done"
    /\ Len(pseudo_asm) > 0
    /\ pseudo_asm[1].mnemonic = "push"
    /\ pseudo_asm[1].imm < -8
    /\ Len(bin_file) >= 5
    /\ ImmField(bin_file[2]) * 16 + ImmField(bin_file[4]) = 256 + pseudo_asm[1].imm

-----------------------------------------------------------------------------
(* C5 *)

\* C5: a push with an accepted immediate v adds exactly one instruction to the
\* expanded sequence when -8 <= v <= 15 and exactly 5 otherwise.
C5_PushLength ==
    [][ (TranslateStep /\ pseudo_asm[addr].mnemonic = "push") =>
            Len(label_asm') - Len(label_asm)
                = IF -8 <= pseudo_asm[addr].imm /\ pseudo_asm[addr].imm <= 15
                  THEN 1 ELSE 5
      ]_vars

\* translate_pseudo has just passed push 15, the upper end of the native
\* window, through as one instruction
C5_Witness ==
    /\ Translated(1)
    /\ pseudo_asm[1].mnemonic = "push"
    /\ pseudo_asm[1].imm = 15
    /\ Len(label_asm) = 1

-----------------------------------------------------------------------------
(* C6 *)

\* line n of the source names a target that no line of the source defines
UndefinedTargetAt(n) ==
    /\ src[n].okind = "id"
    /\ \A m \in 1..Len(src) : src[m].label # src[n].id

\* the diagnostic of the run is the undefined-target error
UndefinedTargetReported ==
    pc = "exit" /\ stderr[Len(stderr)].msg = "jump targets undefined label"

\* C6 (as claimed): an undefined-target error names the source line (by its
\* number in the file) of the first instruction whose target no line defines,
\* and that target; and no such error is raised when every target is defined.
C6_UndefinedTargetNamesLine ==
    UndefinedTargetReported =>
        \E n \in 1..Len(src) :
            /\ UndefinedTargetAt(n)
            /\ \A m \in 1..(n - 1) : ~UndefinedTargetAt(m)
            /\ stderr[Len(stderr)].name = src[n].id
            /\ stderr[Len(stderr)].line = n

-----------------------------------------------------------------------------
(* C7 *)

\* the lines before n that define the label
DefinitionsBefore(label, n) == { m \in 1..(n - 1) : src[m].label = label }

\* the diagnostic of the run is the duplicate-label error
DuplicateLabelReported ==
    pc = "exit" /\ stderr[Len(stderr)].msg = "label already in use"

\* C7: a duplicate-label error is raised at the second line that defines the
\* label, reports the number of the line that defined it first, and leaves the
\* label bound to that first line; and parse does not get past a second
\* definition of a label.
C7_DuplicateLabel ==
    /\ DuplicateLabelReported =>
          LET d == stderr[Len(stderr)]
          IN  /\ d.line = lnum
              /\ d.line \in 1..Len(src)
              /\ src[d.line].label = d.name
              /\ DefinitionsBefore(d.name, d.line) = {d.first}
              /\ label_lut[d.name] = d.first
    /\ \A n \in 1..Len(src) :
          (n < lnum /\ src[n].label # None) => DefinitionsBefore(src[n].label, n) = {}

\* the second definition is rejected, and the first one stands on a line whose
\* number differs from the number of instructions read by then
C7_Witness ==
    /\ DuplicateLabelReported
    /\ stderr[1].first = 2
    /\ src[1] = Blank
    /\ stderr[1].line = 3

-----------------------------------------------------------------------------
(* C8 *)

\* the instruction record made of line n, a line parse has accepted
RecordOf(n) == pseudo_asm[Cardinality({ m \in 1..n : src[m] # Blank })]

\* the diagnostic of the run is a syntax error
SyntaxErrorReported ==
    pc = "exit" /\ stderr[Len(stderr)].msg = "invalid syntax"

\* C8 (as claimed): the tokenizer rejects no line that is jeq or jmp, alone or
\* followed by one identifier.
C8_BranchesAcceptTarget ==
    SyntaxErrorReported =>
        ~ ( /\ src[lnum].mnem \in {"jeq", "jmp"}
            /\ src[lnum].okind \in {"none", "id"} )

\* C8 (amended): jmp alone and jmp followed by one identifier are accepted, the
\* identifier becoming the record's target; jeq is accepted alone only (jeq
\* followed by an identifier is a syntax error); and the expander expands every
\* instruction that carries a target.
C8_JmpAcceptsTarget ==
    /\ [] ( SyntaxErrorReported =>
              /\ ~ (src[lnum].mnem = "jmp" /\ src[lnum].okind \in {"none", "id"})
              /\ ~ (src[lnum].mnem = "jeq" /\ src[lnum].okind = "none") )
    /\ [] ( \A n \in 1..Len(src) :
              (n < lnum /\ src[n].mnem \in {"jeq", "jmp"}) =>
                  /\ ~ (src[n].mnem = "jeq" /\ src[n].okind = "id")
                  /\ RecordOf(n).mnemonic = src[n].mnem
                  /\ RecordOf(n).target = IF src[n].okind = "id" THEN src[n].id ELSE None )
    /\ [][ (TranslateStep /\ pseudo_asm[addr].target # None) =>
              Len(label_asm') > Len(label_asm) + 1 ]_vars

\* jeq alone was accepted and jeq with an identifier is then rejected
C8_Witness ==
    /\ SyntaxErrorReported
    /\ src[lnum].mnem = "jeq"
    /\ src[lnum].okind = "id"
    /\ Len(pseudo_asm) > 0
    /\ pseudo_asm[Len(pseudo_asm)].mnemonic = "jeq"

-----------------------------------------------------------------------------
(* C9 *)

\* C9: no line of the binary file is written before parse, translate_pseudo
\* and target resolution have all completed without a diagnostic; a run that
\* raises stops with exactly one diagnostic and no binary line; a run that
\* finishes has written, in program order, one line of eight 0/1 per
\* instruction of the expanded sequence.
C9_Atomic ==
    /\ pc \in {"parse", "translate", "resolve"} => (bin_file = <<>> /\ stderr = <<>>)
    /\ pc = "exit" => (Len(stderr) = 1 /\ bin_file = <<>> /\ ~ENABLED Next)
    /\ pc \in {"write", "done"} =>
          /\ stderr = <<>>
          /\ lnum > Len(src)
          /\ Len(bin_code) = Len(label_asm)
          /\ Len(bin_file) <= Len(label_asm)
          /\ \A i \in 1..Len(bin_file) :
                /\ Len(bin_file[i]) = 8
                /\ \A b \in 1..8 : bin_file[i][b] \in {0, 1}
                /\ OpField(bin_file[i]) = OPCODES_LUT[label_asm[i].mnemonic]
    /\ pc = "done" => Len(bin_file) = Len(label_asm)

\* a run that fails in translate_pseudo after it has expanded instructions
C9_Witness ==
    /\ UndefinedTargetReported
    /\ Len(label_asm) > 1
    /\ bin_file = <<>>

-----------------------------------------------------------------------------
(* C10 *)

\* the 1-based places of the expanded sequence whose immediate the jump at
\* place j overwrites
PatchedBy(j) == {j - 5, j - 3}

\* C10: an iteration of target resolution changes nothing of the lines made so
\* far but the immediates of the two placeholder pushes of the block of the
\* jump it resolves; no instruction is patched by two jumps; no opcode is
\* changed; every line of the binary file that no jump patches is the opcode
\* of its instruction followed by the low 4 bits of its immediate.
C10_PatchFrame ==
    /\ [][ (pc = "resolve" /\ addr' = addr + 1) =>
              LET j == addr + 1
                  patched == IF label_asm[j].target # None THEN PatchedBy(j) ELSE {}
              IN  /\ Len(bin_code') = Len(bin_code) + 1
                  /\ \A i \in 1..Len(bin_code) :
                        /\ bin_code'[i][1] = bin_code[i][1]
                        /\ i \notin patched => bin_code'[i] = bin_code[i]
                  /\ \A i \in patched :
                        /\ i > j - 8
                        /\ i < j
                        /\ label_asm[j - 7].mnemonic = "puship"
                        /\ \A m \in (j - 7)..(j - 1) : label_asm[m].target = None
                        /\ label_asm[i].mnemonic = "push"
                        /\ label_asm[i].imm = 0
         ]_vars
    /\ [] ( \A j1, j2 \in SymbolicJumps :
              j1 # j2 => PatchedBy(j1) \cap PatchedBy(j2) = {} )
    /\ [] ( pc = "done" =>
              \A i \in 1..Len(label_asm) :
                  /\ OpField(bin_file[i]) = OPCODES_LUT[label_asm[i].mnemonic]
                  /\ (\A j \in SymbolicJumps : i \notin PatchedBy(j)) =>
                         ImmField(bin_file[i]) = label_asm[i].imm % 16 )

\* a finished run with two symbolic jumps, one of them patched with an address
\* that differs from the placeholder in both nibbles
C10_Witness ==
    /\ pc = "done"
    /\ Cardinality(SymbolicJumps) >= 2
    /\ \E j \in SymbolicJumps :
          /\ ImmField(bin_file[j - 5]) # 0
          /\ ImmField(bin_file[j - 3]) # 0

====
